---- MODULE Spec2Model ----
(***************************************************************************)
(* Model of the MKID shared-memory image library (mkidshm.c / mkidshm.h):  *)
(* named POSIX shared-memory segments and semaphores, the per-process      *)
(* address space and descriptor table they are attached through, and the   *)
(* MKID_IMAGE handles the library fills in.                                *)
(***************************************************************************)
EXTENDS Integers, Sequences, FiniteSets, TLC

\* ------------------------------------------------------------------ bounds
NAddr == 4      \* address slots a process can hold mappings at
MaxFaults == 1  \* system calls the OS refuses in one run
MaxFds == 2     \* descriptors a process may hold open (RLIMIT_NOFILE)
MaxPix == 2     \* largest nXPix / nYPix a caller passes
MaxBins == 2    \* largest nWvlBins a caller passes
MaxVal == 1     \* largest count the producer stores in a pixel
MaxCalls == 2   \* startIntegration calls, and postDone calls, in one run
RingCapacity == 2   \* bufferSize of the photon-event ring
MaxEvents == 4  \* photon events appended in one run

\* ------------------------------------------------------- processes, handles
Procs == {"A", "B"}
Handles == {"a1", "a2", "b1"}
procOf(h) == IF h \in {"a1", "a2"} THEN "A" ELSE "B"

Addrs == 1..NAddr
SemNames == {"takeImg", "doneImg"}

VARIABLES
    mdSeg,      \* the metadata segment <name>: [exists, sized, data]
    imgSeg,     \* the image segment <name>.buf: [exists, data]
    sems,       \* named semaphores: name -> [exists, value]
    vm,         \* per process: address -> what is mapped there
    semRef,     \* per process, per semaphore name: sem_open reference count
    fds,        \* per process: number of open descriptors
    image,      \* per handle: the MKID_IMAGE struct
    attached,   \* per handle: what the caller knows ("none", "open", "closed")
    crashed,    \* per process: killed by a fault
    faults,     \* system calls the OS has refused so far
    pc,         \* per handle: "idle", or the blocking call its thread is in
    nStart,     \* startIntegration calls made
    nWoken,     \* waitForImage calls that have returned
    nPostDone,  \* completed integrations the producer has posted
    doneSeen,   \* per handle: polls and timed waits that reported done
    lastCall,   \* the most recent library call and what it returned
    evMd,       \* MKID_EVENT_BUFFER_METADATA: [endInd, writing, nCycles]
    evBuf,      \* the ring: index -> the photon record stored there (0: none)
    newPhotonSem, \* per reader: value of its new-event semaphore
    wpc,        \* where the producer is inside appendEvent
    nAppended,  \* events appended so far
    lastSeen,   \* per reader: the (index, cycle) it remembers
    cursor,     \* per reader: the position its drain reads next
    rpc,        \* per reader: "idle", or "reading" inside drain
    lastDrain,  \* the most recent drain step and what it returned
    wvlSet,     \* the wavelength range most recently set: <<start, stop>>
    doneImage,  \* the image as it was at the latest postDone
    owed,       \* per handle: the image it has been told is done, not yet copied
    outputBuffer \* per handle: the caller's buffer the last copy filled

lifeVars == <<mdSeg, imgSeg, sems, vm, semRef, fds, image, attached, crashed, faults>>
syncVars == <<pc, nStart, nWoken, nPostDone, doneSeen>>
ringVars == <<evMd, evBuf, newPhotonSem, wpc, nAppended, lastSeen, cursor, rpc, lastDrain>>
dataVars == <<wvlSet, doneImage, owed, outputBuffer>>
vars == <<lifeVars, syncVars, lastCall, ringVars, dataVars>>

\* ------------------------------------------------------------ metadata
\* A zero-filled MKID_IMAGE_METADATA (what ftruncate gives a fresh segment).
ZeroMD == [nXPix |-> 0, nYPix |-> 0, useWvl |-> 0, nWvlBins |-> 0,
           useEdgeBins |-> 0, wvlStart |-> 0, wvlStop |-> 0, valid |-> 0,
           startTime |-> 0, integrationTime |-> 0, named |-> FALSE]

WvlStart == 700
WvlStop == 1500

\* populateImageMD: fills the caller's struct; useEdgeBins and valid are
\* fields of the struct it does not touch (the caller's values stay).
populateImageMD(imageMetadata, nXPix, nYPix, useWvl, nWvlBins, wvlStart, wvlStop) ==
    [imageMetadata EXCEPT !.nXPix = nXPix, !.nYPix = nYPix, !.useWvl = useWvl,
                          !.nWvlBins = nWvlBins, !.wvlStart = wvlStart,
                          !.wvlStop = wvlStop, !.startTime = 0,
                          !.integrationTime = 0, !.named = TRUE]

\* The metadata structs a caller hands to create: populateImageMD over the
\* caller's geometry (a wavelength-binned image has at least one bin).
CallerMD ==
    { populateImageMD([ZeroMD EXCEPT !.useEdgeBins = g[5], !.valid = 1],
                      g[1], g[2], g[3], g[4], WvlStart, WvlStop) :
        g \in { t \in (1..MaxPix) \X (1..MaxPix) \X {0, 1} \X (0..MaxBins) \X {0, 1} :
                  t[3] = 1 => t[4] >= 1 } }

\* int imageSize = (mdPtr->nXPix)*(mdPtr->nYPix)*(mdPtr->nWvlBins);
imageSize(md) == md.nXPix * md.nYPix * md.nWvlBins

\* ------------------------------------------------------------ OS objects
NoSeg == [exists |-> FALSE, sized |-> FALSE, data |-> ZeroMD]
NoImg == [exists |-> FALSE, data |-> <<>>]
NoSem == [exists |-> FALSE, value |-> 0]
NoMap == [seg |-> "none", len |-> 0, by |-> "none"]
NullImage == [md |-> 0, image |-> 0, takeImageSem |-> "null", doneImageSem |-> "null"]

Zeros(n) == [i \in 1..n |-> 0]

\* ftruncate on the image descriptor: keep the prefix, zero-fill growth.
Resize(data, n) ==
    IF n <= Len(data) THEN SubSeq(data, 1, n)
    ELSE data \o Zeros(n - Len(data))

FreeAddrs(w, p) == { a \in Addrs : w.vm[p][a].seg = "none" }

World == [mdSeg |-> mdSeg, imgSeg |-> imgSeg, sems |-> sems, vm |-> vm,
          semRef |-> semRef, fds |-> fds, image |-> image]

\* sem_open(name, O_CREAT, mode, 0): creates the semaphore with value 0 when it
\* is absent, attaches to the existing one (value kept) otherwise.
sem_open(w, p, name) ==
    [w EXCEPT !.sems[name] = IF w.sems[name].exists THEN w.sems[name]
                             ELSE [exists |-> TRUE, value |-> 0],
              !.semRef[p][name] = @ + 1]

\* -------------------------------------------------------------- create
CreateFailures == {"none", "shm_open_md", "ftruncate_md", "mmap_md", "shm_open_img",
                   "ftruncate_img", "mmap_img", "sem_open_take", "sem_open_done"}

Ret(w, rc, msg) == [w |-> w, rc |-> rc, msg |-> msg]

\* createMKIDShmImage(imageMetadata, imgName, outputImage) by handle h; `fail`
\* is the system call the OS refuses, a and b the addresses mmap hands out.
createMKIDShmImage(w0, h, imageMetadata, fail, a, b) ==
    LET p == procOf(h)
        \* mdfd = shm_open(imageName, O_RDWR|O_CREAT, ...)
        w1 == [w0 EXCEPT !.mdSeg.exists = TRUE, !.fds[p] = @ + 1]
        \* ftruncate(mdfd, sizeof(MKID_IMAGE_METADATA))
        w2 == [w1 EXCEPT !.mdSeg.sized = TRUE]
        \* mdPtr = mmap(...); memcpy(mdPtr, imageMetadata, ...); outputImage->md = mdPtr
        w3 == [w2 EXCEPT !.vm[p][a] = [seg |-> "md", len |-> 1, by |-> h],
                         !.mdSeg.data = imageMetadata,
                         !.image[h].md = a]
        size == imageSize(w3.mdSeg.data)
        \* imgfd = shm_open(mdPtr->imageBufferName, O_RDWR|O_CREAT, ...)
        imgfd == IF fail = "shm_open_img" \/ w3.fds[p] >= MaxFds THEN -1 ELSE 1
        w4 == IF imgfd = -1 THEN w3
              ELSE [w3 EXCEPT !.imgSeg.exists = TRUE, !.fds[p] = @ + 1]
        \* ftruncate(imgfd, sizeof(image_t)*imageSize)
        w5 == [w4 EXCEPT !.imgSeg.data = Resize(@, size)]
        \* imgPtr = mmap(NULL, sizeof(image_t)*imageSize, ...); outputImage->image = imgPtr
        w6 == [w5 EXCEPT !.vm[p][b] = [seg |-> "img", len |-> size, by |-> h],
                         !.image[h].image = b]
        \* outputImage->takeImageSem = sem_open(mdPtr->takeImageSemName, O_CREAT, ..., 0)
        w7 == IF fail = "sem_open_take"
              THEN [w6 EXCEPT !.image[h].takeImageSem = "SEM_FAILED"]
              ELSE [sem_open(w6, p, "takeImg") EXCEPT !.image[h].takeImageSem = "ptr"]
        \* outputImage->doneImageSem = sem_open(mdPtr->doneImageSemName, O_CREAT, ..., 0)
        w8 == IF fail = "sem_open_done"
              THEN [w7 EXCEPT !.image[h].doneImageSem = "SEM_FAILED"]
              ELSE [sem_open(w7, p, "doneImg") EXCEPT !.image[h].doneImageSem = "ptr"]
        \* close(imgfd); close(mdfd)
        w9 == [w8 EXCEPT !.fds[p] = @ - 2]
    IN  IF fail = "shm_open_md" \/ w0.fds[p] >= MaxFds
          THEN Ret(w0, -1, "Error opening shm metadata")
        ELSE IF fail = "ftruncate_md"
          THEN Ret(w1, -1, "Error truncating shm metadata FD")
        ELSE IF fail = "mmap_md"
          THEN Ret(w2, -1, "Error mapping shm metadata")
        \* if(mdfd == -1): tests mdfd again, so a failed imgfd goes on
        ELSE IF fail = "ftruncate_img" \/ imgfd = -1
          THEN Ret(w4, -1, "Error truncating shm buffer FD")
        ELSE IF fail = "mmap_img" \/ size = 0
          THEN Ret(w5, -1, "Error mapping shm buffer")
        \* a SEM_FAILED is printed, and 0 returned all the same
        ELSE Ret(w9, 0, IF fail \in {"sem_open_take", "sem_open_done"}
                        THEN "Semaphore creation failed" ELSE "")

\* ---------------------------------------------------------------- open
OpenFailures == {"none", "shm_open_md", "ftruncate_md", "mmap_md", "shm_open_img",
                 "ftruncate_img", "mmap_img", "sem_open_take", "sem_open_done"}

\* openMKIDShmImage(imageStruct, imgName) by handle h.
openMKIDShmImage(w0, h, fail, a, b) ==
    LET p == procOf(h)
        \* mdfd = shm_open(imageName, O_RDWR, S_IWUSR): no O_CREAT
        w1 == [w0 EXCEPT !.fds[p] = @ + 1]
        \* ftruncate(mdfd, sizeof(MKID_IMAGE_METADATA))
        w2 == [w1 EXCEPT !.mdSeg.sized = TRUE]
        \* mdPtr = mmap(...); imageStruct->md = mdPtr
        w3 == [w2 EXCEPT !.vm[p][a] = [seg |-> "md", len |-> 1, by |-> h],
                         !.image[h].md = a]
        size == imageSize(w3.mdSeg.data)
        \* imgfd = shm_open(imageStruct->md->imageBufferName, O_RDWR, S_IWUSR)
        imgfd == IF \/ fail = "shm_open_img"
                    \/ w3.fds[p] >= MaxFds
                    \/ ~w3.mdSeg.data.named
                    \/ ~w3.imgSeg.exists
                 THEN -1 ELSE 1
        w4 == IF imgfd = -1 THEN w3 ELSE [w3 EXCEPT !.fds[p] = @ + 1]
        \* ftruncate(imgfd, sizeof(image_t)*imageSize)
        w5 == [w4 EXCEPT !.imgSeg.data = Resize(@, size)]
        \* imgPtr = mmap(NULL, sizeof(image_t)*imageSize, ...); imageStruct->image = imgPtr
        w6 == [w5 EXCEPT !.vm[p][b] = [seg |-> "img", len |-> size, by |-> h],
                         !.image[h].image = b]
        \* imageStruct->takeImageSem = sem_open(mdPtr->takeImageSemName, O_CREAT, ..., 0)
        w7 == IF fail = "sem_open_take"
              THEN [w6 EXCEPT !.image[h].takeImageSem = "SEM_FAILED"]
              ELSE [sem_open(w6, p, "takeImg") EXCEPT !.image[h].takeImageSem = "ptr"]
        \* imageStruct->doneImageSem = sem_open(mdPtr->doneImageSemName, O_CREAT, ..., 0)
        w8 == IF fail = "sem_open_done"
              THEN [w7 EXCEPT !.image[h].doneImageSem = "SEM_FAILED"]
              ELSE [sem_open(w7, p, "doneImg") EXCEPT !.image[h].doneImageSem = "ptr"]
        \* close(imgfd); close(mdfd)
        w9 == [w8 EXCEPT !.fds[p] = @ - 2]
    IN  IF fail = "shm_open_md" \/ w0.fds[p] >= MaxFds \/ ~w0.mdSeg.exists
          THEN Ret(w0, -1, "Error opening shm metadata")
        ELSE IF fail = "ftruncate_md"
          THEN Ret(w1, -1, "Error truncating shm metadata FD")
        ELSE IF fail = "mmap_md"
          THEN Ret(w2, -1, "Error mapping shm metadata")
        \* if(mdfd == -1): tests mdfd again, so a failed imgfd goes on
        ELSE IF fail = "ftruncate_img" \/ imgfd = -1
          THEN Ret(w4, -1, "Error truncating shm metadata FD")
        ELSE IF fail = "mmap_img" \/ size = 0
          THEN Ret(w5, -1, "Error mapping shm metadata")
        ELSE Ret(w9, 0, IF fail \in {"sem_open_take", "sem_open_done"}
                        THEN "Semaphore creation failed" ELSE "")

\* --------------------------------------------------------------- close
\* How the platform resolves an undefined access: it goes unnoticed, or the
\* process is killed.
Undefined == {"benign", "fault"}

\* sem_close as it would be had close called sem_unlink on the name as well.
sem_close_unlink(w, p, sem, name) ==
    IF sem = "ptr" /\ w.semRef[p][name] > 0
    THEN [w |-> [w EXCEPT !.semRef[p][name] = @ - 1, !.sems[name] = NoSem],
          undefined |-> FALSE]
    ELSE [w |-> w, undefined |-> TRUE]

\* sem_close(sem): drops one of the process's references to the semaphore the
\* pointer names; on a pointer that names no open semaphore it is undefined.
sem_close(w, p, sem, name) ==
    IF sem = "ptr" /\ w.semRef[p][name] > 0
    THEN [w |-> [w EXCEPT !.semRef[p][name] = @ - 1], undefined |-> FALSE]
    ELSE [w |-> w, undefined |-> TRUE]

\* munmap(addr, len): EINVAL for a zero length, else whatever is mapped at
\* addr is unmapped.
munmap(w, p, addr, len) ==
    IF len = 0 \/ addr \notin Addrs THEN w
    ELSE [w EXCEPT !.vm[p][addr] = NoMap]

\* closeMKIDShmImage(imageStruct) by handle h; `ub` resolves the undefined
\* accesses it makes, `garbage` is the size it computes from bytes that are no
\* metadata.
closeMKIDShmImage(w0, h, ub, garbage) ==
    LET p == procOf(h)
        c1 == sem_close(w0, p, w0.image[h].takeImageSem, "takeImg")
        c2 == sem_close(c1.w, p, w0.image[h].doneImageSem, "doneImg")
        at == IF w0.image[h].md \in Addrs THEN w0.vm[p][w0.image[h].md] ELSE NoMap
        \* imageStruct->md->nXPix ...: a read through the md pointer
        size == IF at.seg = "md" THEN imageSize(w0.mdSeg.data) ELSE garbage
        w3 == munmap(c2.w, p, w0.image[h].image, size)
        w4 == munmap(w3, p, w0.image[h].md, 1)
        \* an access through a pointer that names nothing this handle holds
        stale == c1.undefined \/ c2.undefined \/ at.by # h
    IN  IF (c1.undefined \/ c2.undefined) /\ ub = "fault"
          THEN [w |-> w0, rc |-> 0, fault |-> TRUE, stale |-> stale]
        \* the md pointer names no mapping: SIGSEGV
        ELSE IF at.seg = "none"
          THEN [w |-> c2.w, rc |-> 0, fault |-> TRUE, stale |-> stale]
        ELSE [w |-> w4, rc |-> 0, fault |-> FALSE, stale |-> stale]

\* A process killed by a fault loses its mappings, descriptors and semaphore
\* references; the named objects stay.
Kill(w, p) ==
    [w EXCEPT !.vm[p] = [a \in Addrs |-> NoMap],
              !.fds[p] = 0,
              !.semRef[p] = [n \in SemNames |-> 0]]

\* ------------------------------------------------------------- actions
Install(w) ==
    /\ mdSeg' = w.mdSeg
    /\ imgSeg' = w.imgSeg
    /\ sems' = w.sems
    /\ vm' = w.vm
    /\ semRef' = w.semRef
    /\ fds' = w.fds
    /\ image' = w.image

Call(op, h, rc, msg, fail, stale) ==
    [op |-> op, h |-> h, rc |-> rc, msg |-> msg, fail |-> fail, stale |-> stale]

\* mmap(NULL, ...): the kernel places the mapping in the first free slot, so
\* a slot that was unmapped is handed out again. A call is made only while two
\* slots are free: running out of address space is the refusal "mmap_*".
Lowest(free) == IF free = {} THEN 0 ELSE CHOOSE a \in free : \A c \in free : a <= c
HasRoom(p) == Cardinality(FreeAddrs(World, p)) >= 2
MdAddr(p) == Lowest(FreeAddrs(World, p))
ImgAddr(p) == Lowest(FreeAddrs(World, p) \ {MdAddr(p)})

Refused(fail) == IF fail = "none" THEN 0 ELSE 1

\* The metadata structs the lifecycle runs create with: one column, one row,
\* no wavelength binning, every nWvlBins.
LifeMD == { m \in CallerMD : m.nXPix = 1 /\ m.nYPix = 1 /\ m.useWvl = 0
                              /\ m.useEdgeBins = 0 }

\* A thread that is in no library call.
Idle == [at |-> "idle", stopImage |-> 0]

CreateOf(h, mds, fails) ==
    /\ ~crashed[procOf(h)]
    /\ pc[h] = Idle
    /\ attached[h] # "open"
    /\ HasRoom(procOf(h))
    /\ \E md \in mds, fail \in fails :
         LET r == createMKIDShmImage(World, h, md, fail, MdAddr(procOf(h)),
                                     ImgAddr(procOf(h)))
         IN  /\ faults + Refused(fail) <= MaxFaults
             /\ Install(r.w)
             /\ attached' = [attached EXCEPT ![h] = IF r.rc = 0 THEN "open" ELSE @]
             /\ faults' = faults + Refused(fail)
             /\ lastCall' = Call("create", h, r.rc, r.msg, fail, FALSE)
             /\ UNCHANGED <<crashed, syncVars, ringVars, dataVars>>

OpenOf(h, fails) ==
    /\ ~crashed[procOf(h)]
    /\ pc[h] = Idle
    /\ attached[h] # "open"
    /\ HasRoom(procOf(h))
    /\ \E fail \in fails :
         LET r == openMKIDShmImage(World, h, fail, MdAddr(procOf(h)),
                                   ImgAddr(procOf(h)))
         IN  /\ faults + Refused(fail) <= MaxFaults
             /\ Install(r.w)
             /\ attached' = [attached EXCEPT ![h] = IF r.rc = 0 THEN "open" ELSE @]
             /\ faults' = faults + Refused(fail)
             /\ lastCall' = Call("open", h, r.rc, r.msg, fail, FALSE)
             /\ UNCHANGED <<crashed, syncVars, ringVars, dataVars>>

Create(h) == CreateOf(h, LifeMD, CreateFailures)
Open(h) == OpenOf(h, OpenFailures)

\* close on an attachment the caller holds, or has already closed.
Close(h) ==
    /\ ~crashed[procOf(h)]
    /\ pc[h] = Idle
    /\ attached[h] \in {"open", "closed"}
    /\ \E ub \in Undefined, garbage \in {0, 1} :
         LET r == closeMKIDShmImage(World, h, ub, garbage)
         IN  /\ Install(IF r.fault THEN Kill(r.w, procOf(h)) ELSE r.w)
             /\ crashed' = [crashed EXCEPT ![procOf(h)] = r.fault]
             /\ attached' = [attached EXCEPT ![h] = "closed"]
             /\ lastCall' = Call("close", h, r.rc, "", "none", r.stale)
             /\ UNCHANGED <<faults, syncVars, ringVars, dataVars>>

\* The producer stores the counts of an integration through its image pointer:
\* image[i*nCols*nRows + y*nCols + x] for every element.
WriteImage(h) ==
    /\ ~crashed[procOf(h)]
    /\ attached[h] = "open"
    /\ \E v \in 1..MaxVal :
         LET p == procOf(h)
             m == vm[p][image[h].image]
             ok == m.seg = "img" /\ m.len <= Len(imgSeg.data)
             w == [World EXCEPT !.imgSeg.data =
                     [i \in 1..Len(@) |-> IF i <= m.len THEN v ELSE @[i]]]
         IN  /\ Install(IF ok THEN w ELSE Kill(World, p))
             /\ crashed' = [crashed EXCEPT ![p] = ~ok]
             /\ lastCall' = Call("write", h, 0, "", "none", FALSE)
             /\ UNCHANGED <<attached, faults, syncVars, ringVars, dataVars>>

\* ------------------------------------------------------ photon-event ring
Readers == {"r1", "r2"}
Slots == 0..(RingCapacity - 1)
StartPos == [index |-> 0, cycle |-> 0]

\* A photon record is two words; the k-th event appended carries k in both.
NoEvent == [lo |-> 0, hi |-> 0]
PhotonEvent(k) == [lo |-> k, hi |-> k]

\* The ring as created: nothing written, every reader at the start.
InitEvents ==
    /\ evMd = [endInd |-> 0, writing |-> 0, nCycles |-> 0]
    /\ evBuf = [i \in Slots |-> NoEvent]
    /\ newPhotonSem = [r \in Readers |-> 0]
    /\ wpc = "idle"
    /\ nAppended = 0
    /\ lastSeen = [r \in Readers |-> StartPos]
    /\ cursor = [r \in Readers |-> StartPos]
    /\ rpc = [r \in Readers |-> "idle"]
    /\ lastDrain = [op |-> "none", r |-> "r1", result |-> "none", rec |-> NoEvent]

\* The write cursor as an (index, cycle) position, and the position after one.
WritePos == [index |-> evMd.endInd, cycle |-> evMd.nCycles]

\* Advance as it would be had the wrap not counted a cycle.
Advance_noCycle(pos) ==
    IF pos.index + 1 = RingCapacity
    THEN [index |-> 0, cycle |-> pos.cycle]
    ELSE [index |-> pos.index + 1, cycle |-> pos.cycle]

Advance(pos) ==
    IF pos.index + 1 = RingCapacity
    THEN [index |-> 0, cycle |-> pos.cycle + 1]
    ELSE [index |-> pos.index + 1, cycle |-> pos.cycle]

\* No named object exists, no process holds anything.
InitWorld ==
    [mdSeg |-> NoSeg,
     imgSeg |-> NoImg,
     sems |-> [n \in SemNames |-> NoSem],
     vm |-> [p \in Procs |-> [a \in Addrs |-> NoMap]],
     semRef |-> [p \in Procs |-> [n \in SemNames |-> 0]],
     fds |-> [p \in Procs |-> 0],
     image |-> [h \in Handles |-> NullImage]]

InitSync ==
    /\ wvlSet = <<WvlStart, WvlStop>>
    /\ doneImage = <<>>
    /\ owed = [h \in Handles |-> <<>>]
    /\ outputBuffer = [h \in Handles |-> <<>>]
    /\ pc = [h \in Handles |-> Idle]
    /\ nStart = 0
    /\ nWoken = 0
    /\ nPostDone = 0
    /\ doneSeen = [h \in Handles |-> 0]

InitIn(w) ==
    /\ mdSeg = w.mdSeg
    /\ imgSeg = w.imgSeg
    /\ sems = w.sems
    /\ vm = w.vm
    /\ semRef = w.semRef
    /\ fds = w.fds
    /\ image = w.image

Init ==
    /\ InitIn(InitWorld)
    /\ attached = [h \in Handles |-> "none"]
    /\ crashed = [p \in Procs |-> FALSE]
    /\ faults = 0
    /\ InitSync
    /\ InitEvents
    /\ lastCall = Call("none", "a1", 0, "", "none", FALSE)

\* The producer process holds a1; a consumer in another process holds b1.
Next ==
    \/ Create("a1")
    \/ WriteImage("a1")
    \/ Open("b1")
    \/ \E h \in {"a1", "b1"} : Close(h)

Spec == Init /\ [][Next]_vars

\* The attachment's pointers name the mappings and semaphores it opened.
Intact(h) ==
    /\ ~crashed[procOf(h)]
    /\ image[h].md \in Addrs
    /\ image[h].image \in Addrs
    /\ vm[procOf(h)][image[h].md].seg = "md"
    /\ vm[procOf(h)][image[h].image].seg = "img"

SemsValid(h) ==
    /\ image[h].takeImageSem = "ptr" /\ semRef[procOf(h)]["takeImg"] > 0
    /\ image[h].doneImageSem = "ptr" /\ semRef[procOf(h)]["doneImg"] > 0

Usable(h) == attached[h] = "open" /\ Intact(h) /\ SemsValid(h)

\* ------------------------------------------------- integration protocol
\* The named semaphore a handle's pointer refers to: every attachment opens
\* mdPtr->takeImageSemName and mdPtr->doneImageSemName.
TakeSemOf(h) == "takeImg"
DoneSemOf(h) == "doneImg"

sem_post(w, name) == [w EXCEPT !.sems[name].value = @ + 1]
sem_wait(w, name) == [w EXCEPT !.sems[name].value = @ - 1]

\* startIntegration as it would be had it posted the semaphore twice.
startIntegration_twice(w, h, startTime) ==
    sem_post(sem_post(w, TakeSemOf(h)), TakeSemOf(h))

\* startIntegration as it would be had the post been left out.
startIntegration_lost(w, h, startTime) == w

\* void startIntegration(image, startTime){ sem_post(image->takeImageSem); }
\* startTime is not used, and there is no duration parameter.
startIntegration(w, h, startTime) == sem_post(w, TakeSemOf(h))

\* void waitForImage(image){ sem_wait(image->takeImageSem); }: returns once it
\* has taken one unit off the semaphore.
waitForImage(w, h) == sem_wait(w, TakeSemOf(h))

\* int checkDoneImage(image){ return sem_trywait(image->doneImageSem); }
checkDoneImage(w, h) ==
    IF w.sems[DoneSemOf(h)].value > 0
    THEN [w |-> sem_wait(w, DoneSemOf(h)), rc |-> 0]
    ELSE [w |-> w, rc |-> -1]

\* postDone: the producer posts every done-semaphore its handle holds, once.
MKIDShmImage_postDoneSem(w, h) == sem_post(w, DoneSemOf(h))

\* timedWait as it would be had it cleared the flag on every timeout.
MKIDShmImage_timedwait_cancels(w, h, stopImage, event) ==
    IF w.sems[DoneSemOf(h)].value > 0
    THEN [w |-> sem_wait(w, DoneSemOf(h)), rc |-> "Ready"]
    ELSE IF event = "deadline"
    THEN [w |-> [w EXCEPT !.mdSeg.data.valid = 0], rc |-> "Timeout"]
    ELSE [w |-> w, rc |-> "Interrupted"]

\* timedWait: a bounded wait on the done-semaphore. It returns Ready with a
\* unit taken when one is there; with none, `event` ends the wait: the
\* deadline (Timeout, and with stopImage the validity flag is cleared) or a
\* signal (Interrupted).
MKIDShmImage_timedwait(w, h, stopImage, event) ==
    IF w.sems[DoneSemOf(h)].value > 0
    THEN [w |-> sem_wait(w, DoneSemOf(h)), rc |-> "Ready"]
    ELSE IF event = "deadline"
    THEN [w |-> IF stopImage = 1 THEN [w EXCEPT !.mdSeg.data.valid = 0] ELSE w,
          rc |-> "Timeout"]
    ELSE [w |-> w, rc |-> "Interrupted"]

\* The time the producer passes as startTime: each start is later than the
\* one before. The integration time it asks for is the configured one.
Clock == nStart + 1
IntTime == 1

\* A thread calls into the library through an attachment it holds open.
CanCall(h) == Usable(h) /\ pc[h] = Idle

StartIntegration(h) ==
    /\ CanCall(h)
    /\ nStart < MaxCalls
    /\ Install(startIntegration(World, h, Clock))
    /\ nStart' = nStart + 1
    /\ lastCall' = Call("startIntegration", h, 0, "", "none", FALSE)
    /\ UNCHANGED <<attached, crashed, faults, pc, nWoken, nPostDone, doneSeen, ringVars, dataVars>>

WaitCall(h) ==
    /\ CanCall(h)
    /\ pc' = [pc EXCEPT ![h] = [at |-> "wait", stopImage |-> 0]]
    /\ lastCall' = Call("waitCall", h, 0, "", "none", FALSE)
    /\ UNCHANGED <<lifeVars, nStart, nWoken, nPostDone, doneSeen, ringVars, dataVars>>

WaitReturn(h) ==
    /\ pc[h].at = "wait"
    /\ sems[TakeSemOf(h)].value > 0
    /\ Install(waitForImage(World, h))
    /\ pc' = [pc EXCEPT ![h] = Idle]
    /\ nWoken' = nWoken + 1
    /\ lastCall' = Call("wait", h, 0, "", "none", FALSE)
    /\ UNCHANGED <<attached, crashed, faults, nStart, nPostDone, doneSeen, ringVars, dataVars>>

CheckDone(h) ==
    /\ CanCall(h)
    /\ LET r == checkDoneImage(World, h)
       IN  /\ Install(r.w)
           /\ doneSeen' = [doneSeen EXCEPT ![h] = IF r.rc = 0 THEN @ + 1 ELSE @]
           /\ owed' = [owed EXCEPT ![h] = IF r.rc = 0 THEN doneImage ELSE @]
           /\ lastCall' = Call("checkDone", h, r.rc, "", "none", FALSE)
    /\ UNCHANGED <<attached, crashed, faults, pc, nStart, nWoken, nPostDone, ringVars>>
    /\ UNCHANGED <<wvlSet, doneImage, outputBuffer>>

PostDone(h) ==
    /\ CanCall(h)
    /\ nPostDone < MaxCalls
    /\ Install(MKIDShmImage_postDoneSem(World, h))
    /\ nPostDone' = nPostDone + 1
    /\ doneImage' = imgSeg.data
    /\ lastCall' = Call("postDone", h, 0, "", "none", FALSE)
    /\ UNCHANGED <<attached, crashed, faults, pc, nStart, nWoken, doneSeen, ringVars>>
    /\ UNCHANGED <<wvlSet, owed, outputBuffer>>

TimedWaitCall(h) ==
    /\ CanCall(h)
    /\ \E stopImage \in {0, 1} :
         pc' = [pc EXCEPT ![h] = [at |-> "timedwait", stopImage |-> stopImage]]
    /\ lastCall' = Call("timedwaitCall", h, 0, "", "none", FALSE)
    /\ UNCHANGED <<lifeVars, nStart, nWoken, nPostDone, doneSeen, ringVars, dataVars>>

TimedWaitReturn(h) ==
    /\ pc[h].at = "timedwait"
    /\ \E event \in {"deadline", "signal"} :
         LET r == MKIDShmImage_timedwait(World, h, pc[h].stopImage, event)
         IN  /\ Install(r.w)
             /\ doneSeen' = [doneSeen EXCEPT ![h] = IF r.rc = "Ready" THEN @ + 1 ELSE @]
             /\ owed' = [owed EXCEPT ![h] = IF r.rc = "Ready" THEN doneImage ELSE @]
             /\ lastCall' = Call("timedwait", h, IF r.rc = "Ready" THEN 0 ELSE -1,
                                 r.rc, event, FALSE)
    /\ pc' = [pc EXCEPT ![h] = Idle]
    /\ UNCHANGED <<attached, crashed, faults, nStart, nWoken, nPostDone, ringVars>>
    /\ UNCHANGED <<wvlSet, doneImage, outputBuffer>>

\* What a process reads through the md pointer of attachment h: the shared
\* segment, mapped MAP_SHARED.
readMD(h) == IF Intact(h) THEN mdSeg.data ELSE ZeroMD

\* The ranges a caller sets.
WvlRanges == {<<WvlStart, WvlStop>>, <<WvlStart + 100, WvlStop - 100>>}

\* setWavelengthRange as it would be had it stored the start only.
MKIDShmImage_setWvlRange_startOnly(w, h, wvlStart, wvlStop) ==
    [w EXCEPT !.mdSeg.data.wvlStart = wvlStart]

\* setWavelengthRange: stores the range in the shared metadata.
MKIDShmImage_setWvlRange(w, h, wvlStart, wvlStop) ==
    [w EXCEPT !.mdSeg.data.wvlStart = wvlStart, !.mdSeg.data.wvlStop = wvlStop]

SetWvlRange(h) ==
    /\ CanCall(h)
    /\ \E r \in WvlRanges :
         /\ Install(MKIDShmImage_setWvlRange(World, h, r[1], r[2]))
         /\ wvlSet' = r
    /\ lastCall' = Call("setWvlRange", h, 0, "", "none", FALSE)
    /\ UNCHANGED <<attached, crashed, faults, syncVars, ringVars>>
    /\ UNCHANGED <<doneImage, owed, outputBuffer>>

\* copy: the elements the attachment's image mapping covers, stored in the
\* caller's buffer. The caller copies an image it has been told is done.
MKIDShmImage_copy(w, h) ==
    LET m == w.vm[procOf(h)][w.image[h].image]
    IN  [i \in 1..m.len |-> w.imgSeg.data[i]]

Copy(h) ==
    /\ CanCall(h)
    /\ owed[h] # <<>>
    /\ outputBuffer' = [outputBuffer EXCEPT ![h] = MKIDShmImage_copy(World, h)]
    /\ owed' = [owed EXCEPT ![h] = <<>>]
    /\ lastCall' = Call("copy", h, 0, "", "none", FALSE)
    /\ UNCHANGED <<lifeVars, syncVars, ringVars, wvlSet, doneImage>>

\* The buffer as the protocol runs on it: a1 has created it (one pixel, no
\* wavelength binning), a2 and b1 have opened it.
SyncMD == populateImageMD([ZeroMD EXCEPT !.valid = 1], 1, 1, 0, 1, WvlStart, WvlStop)
SyncWorld ==
    LET w1 == createMKIDShmImage(InitWorld, "a1", SyncMD, "none", 1, 2).w
        w2 == openMKIDShmImage(w1, "a2", "none", 3, 4).w
    IN  openMKIDShmImage(w2, "b1", "none", 1, 2).w

InitProtocol ==
    /\ InitIn(SyncWorld)
    /\ attached = [h \in Handles |-> "open"]
    /\ crashed = [p \in Procs |-> FALSE]
    /\ faults = 0
    /\ InitSync
    /\ InitEvents
    /\ lastCall = Call("open", "b1", 0, "", "none", FALSE)

Consumers == {"a2", "b1"}

NextSync ==
    \/ StartIntegration("a1")
    \/ PostDone("a1")
    \/ \E h \in Consumers :
         \/ WaitCall(h)
         \/ WaitReturn(h)
         \/ CheckDone(h)
         \/ TimedWaitCall(h)
         \/ TimedWaitReturn(h)

SpecSync == InitProtocol /\ [][NextSync]_vars

\* sem_wait returns once the semaphore is positive and stays so: a thread
\* that can take a unit is eventually scheduled to take it.
SpecSyncFair == SpecSync /\ \A h \in Consumers : WF_vars(WaitReturn(h))

\* The data path on the open buffer: the producer sets the range, integrates
\* and posts done; the consumers poll and copy.
NextData ==
    \/ SetWvlRange("a1")
    \/ StartIntegration("a1")
    \/ WriteImage("a1")
    \/ PostDone("a1")
    \/ \E h \in Consumers :
         \/ CheckDone(h)
         \/ Copy(h)

SpecData == InitProtocol /\ [][NextData]_vars

\* A create that another process overtakes: the thread has returned from
\* shm_open of the metadata (line 11) and not yet called ftruncate (line 19).
CreateEnter(h) ==
    /\ ~crashed[procOf(h)]
    /\ pc[h] = Idle
    /\ attached[h] # "open"
    /\ HasRoom(procOf(h))
    /\ fds[procOf(h)] < MaxFds
    /\ Install(createMKIDShmImage(World, h, SyncMD, "ftruncate_md",
                                  MdAddr(procOf(h)), ImgAddr(procOf(h))).w)
    /\ pc' = [pc EXCEPT ![h] = [at |-> "create", stopImage |-> 0]]
    /\ lastCall' = Call("createEnter", h, 0, "", "none", FALSE)
    /\ UNCHANGED <<attached, crashed, faults, nStart, nWoken, nPostDone, doneSeen>>
    /\ UNCHANGED <<ringVars, dataVars>>

\* The rest of that create. Lines 19-67 from here are the whole function run
\* from a state in which the descriptor of line 11 is not yet held: shm_open
\* with O_CREAT of the segment that exists only returns that descriptor.
CreateFinish(h) ==
    /\ pc[h].at = "create"
    /\ LET p == procOf(h)
           r == createMKIDShmImage([World EXCEPT !.fds[p] = @ - 1], h, SyncMD,
                                   "none", MdAddr(p), ImgAddr(p))
       IN  /\ Install(r.w)
           /\ attached' = [attached EXCEPT ![h] = IF r.rc = 0 THEN "open" ELSE @]
           /\ lastCall' = Call("create", h, r.rc, r.msg, "none", FALSE)
    /\ pc' = [pc EXCEPT ![h] = Idle]
    /\ UNCHANGED <<crashed, faults, nStart, nWoken, nPostDone, doneSeen>>
    /\ UNCHANGED <<ringVars, dataVars>>

\* A name that is used again: a1 creates (in one go, or overtaken), posts,
\* closes and creates again with any geometry; b1 opens, polls and closes.
\* No call is refused.
ReuseMD == {m \in LifeMD : m.nWvlBins >= 1}
CreateReuse == CreateOf("a1", ReuseMD, {"none"})
OpenReuse == OpenOf("b1", {"none"})
NextReuse ==
    \/ CreateReuse
    \/ CreateEnter("a1")
    \/ CreateFinish("a1")
    \/ StartIntegration("a1")
    \/ PostDone("a1")
    \/ OpenReuse
    \/ CheckDone("b1")
    \/ \E h \in {"a1", "b1"} : Close(h)

SpecReuse == Init /\ [][NextReuse]_vars

\* appendEvent (producer), one action per step: set the write flag, write
\* the record at the current index (one word, then the other), clear the
\* flag, advance the index (a wrap increments the cycle counter), post every
\* new-event semaphore.
AppendSetFlag ==
    /\ wpc = "idle"
    /\ nAppended < MaxEvents
    /\ evMd' = [evMd EXCEPT !.writing = 1]
    /\ wpc' = "write"
    /\ UNCHANGED <<evBuf, newPhotonSem, nAppended, lastSeen, cursor, rpc, lastDrain>>
    /\ UNCHANGED <<lifeVars, syncVars, lastCall, dataVars>>

AppendWrite ==
    /\ wpc = "write"
    /\ evBuf' = [evBuf EXCEPT ![evMd.endInd].lo = PhotonEvent(nAppended + 1).lo]
    /\ wpc' = "write2"
    /\ UNCHANGED <<evMd, newPhotonSem, nAppended, lastSeen, cursor, rpc, lastDrain>>
    /\ UNCHANGED <<lifeVars, syncVars, lastCall, dataVars>>

AppendWrite2 ==
    /\ wpc = "write2"
    /\ evBuf' = [evBuf EXCEPT ![evMd.endInd].hi = PhotonEvent(nAppended + 1).hi]
    /\ wpc' = "clear"
    /\ UNCHANGED <<evMd, newPhotonSem, nAppended, lastSeen, cursor, rpc, lastDrain>>
    /\ UNCHANGED <<lifeVars, syncVars, lastCall, dataVars>>

AppendClearFlag ==
    /\ wpc = "clear"
    /\ evMd' = [evMd EXCEPT !.writing = 0]
    /\ wpc' = "advance"
    /\ UNCHANGED <<evBuf, newPhotonSem, nAppended, lastSeen, cursor, rpc, lastDrain>>
    /\ UNCHANGED <<lifeVars, syncVars, lastCall, dataVars>>

AppendAdvance ==
    /\ wpc = "advance"
    /\ evMd' = [evMd EXCEPT !.endInd = Advance(WritePos).index,
                            !.nCycles = Advance(WritePos).cycle]
    /\ wpc' = "post"
    /\ UNCHANGED <<evBuf, newPhotonSem, nAppended, lastSeen, cursor, rpc, lastDrain>>
    /\ UNCHANGED <<lifeVars, syncVars, lastCall, dataVars>>

AppendPost ==
    /\ wpc = "post"
    /\ newPhotonSem' = [r \in Readers |-> newPhotonSem[r] + 1]
    /\ nAppended' = nAppended + 1
    /\ wpc' = "idle"
    /\ UNCHANGED <<evMd, evBuf, lastSeen, cursor, rpc, lastDrain>>
    /\ UNCHANGED <<lifeVars, syncVars, lastCall, dataVars>>

\* A reader takes its new-event token.
TakeNewPhoton(r) ==
    /\ rpc[r] = "idle"
    /\ newPhotonSem[r] > 0
    /\ newPhotonSem' = [newPhotonSem EXCEPT ![r] = @ - 1]
    /\ UNCHANGED <<evMd, evBuf, wpc, nAppended, lastSeen, cursor, rpc, lastDrain>>
    /\ UNCHANGED <<lifeVars, syncVars, lastCall, dataVars>>

\* drain (consumer): when lastSeen.cycle is more than one behind the writer's
\* cycle it reports DataLoss and resynchronizes to the write position;
\* otherwise it reads from lastSeen forward until it reaches the write
\* position: for each record it tests the write flag, retries while the flag
\* is set, and copies the record once it has seen the flag clear. No lock is
\* held, so the producer runs between the test and the copy.
DrainBegin(r) ==
    /\ rpc[r] = "idle"
    /\ IF evMd.nCycles - lastSeen[r].cycle > 1
       THEN /\ lastSeen' = [lastSeen EXCEPT ![r] = WritePos]
            /\ lastDrain' = [op |-> "begin", r |-> r, result |-> "DataLoss",
                             rec |-> NoEvent]
            /\ UNCHANGED <<cursor, rpc>>
       ELSE /\ cursor' = [cursor EXCEPT ![r] = lastSeen[r]]
            /\ rpc' = [rpc EXCEPT ![r] = "reading"]
            /\ lastDrain' = [op |-> "begin", r |-> r, result |-> "reading",
                             rec |-> NoEvent]
            /\ UNCHANGED lastSeen
    /\ UNCHANGED <<evMd, evBuf, newPhotonSem, wpc, nAppended>>
    /\ UNCHANGED <<lifeVars, syncVars, lastCall, dataVars>>

DrainCheck(r) ==
    /\ rpc[r] = "reading"
    /\ cursor[r] # WritePos
    /\ evMd.writing = 0
    /\ rpc' = [rpc EXCEPT ![r] = "copying"]
    /\ lastDrain' = [op |-> "check", r |-> r, result |-> "clear", rec |-> NoEvent]
    /\ UNCHANGED <<evMd, evBuf, newPhotonSem, wpc, nAppended, lastSeen, cursor>>
    /\ UNCHANGED <<lifeVars, syncVars, lastCall, dataVars>>

DrainRead(r) ==
    /\ rpc[r] = "copying"
    /\ cursor' = [cursor EXCEPT ![r] = Advance(@)]
    /\ rpc' = [rpc EXCEPT ![r] = "reading"]
    /\ lastDrain' = [op |-> "read", r |-> r, result |-> "record",
                     rec |-> evBuf[cursor[r].index]]
    /\ UNCHANGED <<evMd, evBuf, newPhotonSem, wpc, nAppended, lastSeen>>
    /\ UNCHANGED <<lifeVars, syncVars, lastCall, dataVars>>

DrainEnd(r) ==
    /\ rpc[r] = "reading"
    /\ cursor[r] = WritePos
    /\ lastSeen' = [lastSeen EXCEPT ![r] = cursor[r]]
    /\ rpc' = [rpc EXCEPT ![r] = "idle"]
    /\ lastDrain' = [op |-> "end", r |-> r, result |-> "done", rec |-> NoEvent]
    /\ UNCHANGED <<evMd, evBuf, newPhotonSem, wpc, nAppended, cursor>>
    /\ UNCHANGED <<lifeVars, syncVars, lastCall, dataVars>>

NextRing ==
    \/ AppendSetFlag
    \/ AppendWrite
    \/ AppendWrite2
    \/ AppendClearFlag
    \/ AppendAdvance
    \/ AppendPost
    \/ \E r \in Readers :
         \/ TakeNewPhoton(r)
         \/ DrainBegin(r)
         \/ DrainCheck(r)
         \/ DrainRead(r)
         \/ DrainEnd(r)

SpecRing == Init /\ [][NextRing]_vars

\* Two attachments of one process: a1 creates, a2 opens, no call is refused.
CreateSame == CreateOf("a1", LifeMD, {"none"})
OpenSame == OpenOf("a2", {"none"})
NextSame ==
    \/ CreateSame
    \/ OpenSame
    \/ \E h \in {"a1", "a2"} : Close(h)

SpecSame == Init /\ [][NextSame]_vars

\* Every geometry a caller may pass: a1 creates, b1 opens, no call is refused.
CreateGeom == CreateOf("a1", CallerMD, {"none"})
OpenGeom == OpenOf("b1", {"none"})
NextGeom ==
    \/ CreateGeom
    \/ OpenGeom
    \/ WriteImage("a1")

SpecGeom == Init /\ [][NextGeom]_vars

\* ------------------------------------------------------ derived predicates
\* The named objects that exist.
Objects == <<mdSeg.exists, imgSeg.exists, [n \in SemNames |-> sems[n].exists]>>

\* What a process holds: descriptors, mappings, semaphore references.
Held(p) == <<fds[p], vm[p], semRef[p]>>

\* The element count the metadata calls for.
effectiveBins(md) ==
    IF md.useWvl # 0 THEN md.nWvlBins + (IF md.useEdgeBins # 0 THEN 2 ELSE 0) ELSE 1
elementCount(md) == md.nXPix * md.nYPix * effectiveBins(md)

\* The message the library prints where it checks each system call.
StepMessage(fail) ==
    CASE fail = "shm_open_md" -> "Error opening shm metadata"
      [] fail = "ftruncate_md" -> "Error truncating shm metadata FD"
      [] fail = "mmap_md" -> "Error mapping shm metadata"
      [] fail = "shm_open_img" -> "Error opening shm buffer"
      [] fail = "ftruncate_img" -> "Error truncating shm buffer FD"
      [] fail = "mmap_img" -> "Error mapping shm buffer"
      [] OTHER -> "Semaphore creation failed"

\* ------------------------------------------------------------------ C1
\* C1: every consumer gets its own done signal: after the producer has posted
\* done k times in total, each consumer's polls (checkDone) and timed waits
\* have together reported done at most k times, and a poll that reports
\* not-done means that consumer has already been told of all k.
C1_FanOutDelivery ==
    \A i \in Consumers :
        /\ doneSeen[i] <= nPostDone
        /\ (lastCall.op = "checkDone" /\ lastCall.h = i /\ lastCall.rc # 0)
              => doneSeen[i] = nPostDone

\* ------------------------------------------------------------------ C2
\* C2: a poll or timed wait by consumer i leaves every other consumer's
\* pending done count as it was.
PendingDone(j) == sems[DoneSemOf(j)].value

C2_ConsumerIsolation ==
    [][\A i \in Consumers :
          (lastCall'.op \in {"checkDone", "timedwait"} /\ lastCall'.h = i)
             => \A j \in Consumers \ {i} : PendingDone(j)' = PendingDone(j)]_vars

C8_TimedWaitExpiry ==
    /\ [](\A h \in Consumers : pc[h].at = "timedwait" => ENABLED TimedWaitReturn(h))
    /\ [][\A c \in Consumers :
            (lastCall'.op = "timedwait" /\ lastCall'.h = c)
               => /\ nPostDone = 0 =>
                        /\ lastCall'.msg # "Ready"
                        /\ lastCall'.fail = "deadline" => lastCall'.msg = "Timeout"
                  /\ IF lastCall'.msg = "Timeout" /\ pc[c].stopImage = 1
                     THEN mdSeg' = [mdSeg EXCEPT !.data.valid = 0]
                     ELSE mdSeg' = mdSeg]_vars

\* A timed wait with stopImage has timed out on a never-posted semaphore and
\* the flag, set at creation, is now clear.
C8_Witness ==
    /\ lastCall.op = "timedwait" /\ lastCall.msg = "Timeout"
    /\ nPostDone = 0
    /\ mdSeg.data.valid = 0

\* ------------------------------------------------------------------ C11
\* C11: startIntegration stores startTime and the duration in the shared
\* metadata before it posts the take semaphore: when a wait returns, the
\* metadata holds the startTime of a start that can have woken it (not
\* earlier than the start whose credit it used, not later than the latest
\* start) and the duration asked for.
C11_StartTimeBeforePost ==
    [][\A c \in Consumers :
          (lastCall'.op = "wait" /\ lastCall'.h = c)
             => /\ mdSeg'.data.startTime \in (nWoken + 1)..nStart
                /\ mdSeg'.data.integrationTime = IntTime]_vars

\* ------------------------------------------------------------------ C12
\* C12: once setWavelengthRange has returned, every attachment open on the
\* name reads the range it set, without re-opening, and the call changed
\* nothing else: no other metadata field, no image element.
C12_WvlRangePropagation ==
    /\ [](\A h \in Handles :
            Usable(h) => /\ readMD(h).wvlStart = wvlSet[1]
                         /\ readMD(h).wvlStop = wvlSet[2])
    /\ [][lastCall'.op = "setWvlRange"
            => /\ mdSeg' = [mdSeg EXCEPT !.data.wvlStart = wvlSet'[1],
                                         !.data.wvlStop = wvlSet'[2]]
               /\ imgSeg' = imgSeg]_vars

\* The producer has set a range other than the one the buffer was created
\* with, and b1, opened before, reads it.
C12_Witness ==
    /\ lastCall.op = "setWvlRange"
    /\ lastCall.h = "a1"
    /\ Usable("b1")
    /\ readMD("b1").wvlStart = WvlStart + 100
    /\ readMD("b1").wvlStop = WvlStop - 100

\* ------------------------------------------------------------------ C18
\* C18: a consumer that copies only after its own poll or timed wait reported
\* done gets the image of the integration it was told of: the producer has
\* not written the buffer between that postDone and the copy, so the buffer
\* the copy reads, and the snapshot it leaves with the caller, are the image
\* as it was when done was posted.
C18_CopyAfterDone ==
    [][\A c \in Consumers :
          (lastCall'.op = "copy" /\ lastCall'.h = c)
             => /\ imgSeg.data = owed[c]
                /\ outputBuffer'[c] = owed[c]]_vars

\* ------------------------------------------------------------------ C15
\* C15: when create returns success, the take semaphore and the done
\* semaphore of the name have count 0, also when they are left over, with
\* posts nobody consumed, from an earlier create.
C15_SemaphoresStartAtZero ==
    (lastCall.op = "create" /\ lastCall.rc = 0)
        => \A n \in SemNames : sems[n].exists /\ sems[n].value = 0

\* ------------------------------------------------------------------ C16
\* The geometry the shared metadata stores, and whether a create of the name
\* has succeeded.
Geometry(md) == <<md.nXPix, md.nYPix, md.useWvl, md.nWvlBins, md.useEdgeBins, md.named>>
Created == attached["a1"] # "none"

\* C16: once a create of the name has succeeded, no later operation, a
\* second create included, changes the geometry or the derived names in the
\* shared metadata, or the size of the image segment.
C16_GeometrySetOnce ==
    [][Created => /\ Geometry(mdSeg'.data) = Geometry(mdSeg.data)
                  /\ Len(imgSeg'.data) = Len(imgSeg.data)]_vars

\* ------------------------------------------------------------------ C17
\* C17: an open, successful or not, leaves the size of the metadata segment
\* and the size of the image segment as they were, also when it runs while a
\* create of the name has not yet written the metadata.
C17_AttachDoesNotResize ==
    [][lastCall'.op = "open"
          => /\ mdSeg'.sized = mdSeg.sized
             /\ Len(imgSeg'.data) = Len(imgSeg.data)]_vars

\* ------------------------------------------------------------------ C19
\* C19: when create or open has returned 0, the handle's metadata pointer and
\* image pointer name mappings of the two segments and both its semaphore
\* pointers name open semaphores: a SEM_FAILED never comes with a 0.
C19_SuccessImpliesUsable ==
    (lastCall.op \in {"create", "open"} /\ lastCall.rc = 0)
        => /\ Intact(lastCall.h)
           /\ SemsValid(lastCall.h)
           /\ image[lastCall.h].takeImageSem # "SEM_FAILED"
           /\ image[lastCall.h].doneImageSem # "SEM_FAILED"

\* ------------------------------------------------------------------ C20
\* The attachments blocked in wait, and the starts no wait has used yet.
Blocked == {h \in Consumers : pc[h].at = "wait"}
Credit == nStart - nWoken

EventAt(pos) == pos.cycle * RingCapacity + pos.index + 1
Overwritten(pos) == evBuf[pos.index].lo > EventAt(pos)
DrainStep(r, op) ==
    /\ lastDrain'.op = op
    /\ lastDrain'.r = r
    /\ <<rpc[r], lastSeen[r], cursor[r]>>' # <<rpc[r], lastSeen[r], cursor[r]>>

\* C4: a drain that starts from a remembered position the writer has since
\* overwritten (the writer being one cycle ahead included) reports DataLoss
\* and moves lastSeen to the write position, and every record a drain returns
\* is the event the reader expected at that position, never a later one
\* written over it.
C4_StaleReaderGetsDataLoss ==
    [][\A r \in Readers :
          /\ (DrainStep(r, "begin") /\ Overwritten(lastSeen[r]))
                => /\ lastDrain'.result = "DataLoss"
                   /\ lastSeen'[r] = WritePos
          /\ DrainStep(r, "read")
                => lastDrain'.rec = PhotonEvent(EventAt(cursor[r]))]_vars

\* ------------------------------------------------------------------ C13
\* The events the ring holds, and the most recent n of those appended.
RingEvents == {evBuf[i] : i \in Slots} \ {NoEvent}
MostRecent(n) == {PhotonEvent(k) : k \in (nAppended - n + 1)..nAppended}
Smaller(a, b) == IF a < b THEN a ELSE b

\* C13: the write index stays within [0, capacity); the write position is
\* moved only by appendEvent's advance step, by exactly one modulo capacity,
\* the cycle counter going up by one exactly when the index wraps to 0, so
\* the position is one event further with every append; and whenever no
\* append is under way the ring holds exactly the min(appended, capacity)
\* most recently appended events.
C13_RingCursor ==
    /\ [](/\ evMd.endInd \in Slots
          /\ EventAt(WritePos) = nAppended + 1 + (IF wpc = "post" THEN 1 ELSE 0)
          /\ wpc = "idle" => RingEvents = MostRecent(Smaller(nAppended, RingCapacity)))
    /\ [][WritePos' # WritePos
            => /\ wpc = "advance"
               /\ evMd'.endInd = (evMd.endInd + 1) % RingCapacity
               /\ evMd'.nCycles = evMd.nCycles + (IF evMd'.endInd = 0 THEN 1 ELSE 0)
               /\ EventAt(WritePos') = EventAt(WritePos) + 1]_vars

\* Capacity + 1 events have been appended: the index has wrapped and stands
\* at 1 in cycle 1.
C13_Witness ==
    /\ wpc = "idle"
    /\ nAppended = RingCapacity + 1
    /\ evMd.nCycles = 1
    /\ evMd.endInd = 1

\* ------------------------------------------------------------------ C14
\* The producer has stored one word of the record at slot i, not yet the other.
WriteInProgress(i) == wpc = "write2" /\ evMd.endInd = i

\* C14: every record a drain returns is one complete record that appendEvent
\* wrote, and the producer was not writing that record while the drain read
\* it.
C14_NoTornReads ==
    [][\A r \in Readers :
          DrainStep(r, "read")
             => /\ \E k \in 1..MaxEvents : lastDrain'.rec = PhotonEvent(k)
                /\ ~WriteInProgress(cursor[r].index)]_vars

\* ------------------------------------------------------------------ C5
\* C5: a successful create leaves an image segment of exactly
\* columns * rows * effectiveBins elements (effectiveBins = nWvlBins, plus 2
\* with edge bins, when useWvl is set, and 1 otherwise), and a later open maps
\* the same number of elements under the geometry create wrote.
C5_ElementCountRoundTrip ==
    /\ (lastCall.op = "create" /\ lastCall.rc = 0)
          => /\ Len(imgSeg.data) = elementCount(mdSeg.data)
             /\ vm["A"][image["a1"].image].len = elementCount(mdSeg.data)
    /\ (lastCall.op = "open" /\ lastCall.rc = 0)
          => /\ vm["B"][image["b1"].image].len = elementCount(mdSeg.data)
             /\ Len(imgSeg.data) = elementCount(mdSeg.data)

\* ------------------------------------------------------------------ C6
\* C6: a close step unlinks nothing and changes no named object (segments
\* and semaphores keep their existence, contents and counts), every attachment
\* of another process that was usable stays usable, and an open that would
\* have succeeded before the close still would after it.
WouldOpen(w, h) == openMKIDShmImage(w, h, "none", 1, 2).rc = 0

C6_CloseIsLocal ==
    [][\A c \in Handles :
         (lastCall'.op = "close" /\ lastCall'.h = c) =>
           /\ mdSeg' = mdSeg
           /\ imgSeg' = imgSeg
           /\ sems' = sems
           /\ \A h \in Handles :
                procOf(h) # procOf(c) =>
                  /\ Usable(h) => Usable(h)'
                  /\ image'[h] = image[h]
                  /\ Held(procOf(h))' = Held(procOf(h))
           /\ \A h \in Handles :
                (~crashed'[procOf(h)] /\ WouldOpen(World, h)) => WouldOpen(World', h)]_vars

\* A close by the producer while the consumer of the other process holds a
\* usable attachment and the image holds counts.
C6_Witness ==
    /\ lastCall.op = "close"
    /\ lastCall.h = "a1"
    /\ Usable("b1")
    /\ \E i \in 1..Len(imgSeg.data) : imgSeg.data[i] # 0

\* ------------------------------------------------------------------ C7
\* C7: a second close of an attachment makes no access through a pointer the
\* first close released, and leaves every other attachment intact.
C7_DoubleCloseSafe ==
    [][\A c \in Handles :
         (lastCall'.op = "close" /\ lastCall'.h = c /\ attached[c] = "closed") =>
           /\ ~lastCall'.stale
           /\ \A h \in Handles \ {c} :
                (attached[h] = "open" /\ Intact(h) /\ SemsValid(h))
                  => (Intact(h)' /\ SemsValid(h)')]_vars

\* ------------------------------------------------------------------ C9
\* C9: a create in which a system call fails returns an error naming that
\* step, and on return the process holds no descriptor, mapping or semaphore
\* reference it did not hold before, and no named object create made is left.
C9_CreateFailureCleanup ==
    [][\A c \in Handles :
         (lastCall'.op = "create" /\ lastCall'.h = c /\ lastCall'.fail # "none") =>
           /\ lastCall'.rc = -1
           /\ lastCall'.msg = StepMessage(lastCall'.fail)
           /\ Held(procOf(c))' = Held(procOf(c))
           /\ Objects' = Objects]_vars

\* ----------------------------------------------------------------- C10
\* C10: an open fails and creates no named object when the metadata segment
\* or the image segment is missing; when both exist, a semaphore is missing
\* and no system call is refused, open succeeds and the semaphore then exists
\* with count 0.
C10_OpenPolicy ==
    [][\A c \in Handles :
         (lastCall'.op = "open" /\ lastCall'.h = c) =>
           /\ (~mdSeg.exists \/ ~imgSeg.exists)
                => (lastCall'.rc = -1 /\ Objects' = Objects)
           /\ ( /\ mdSeg.exists /\ imgSeg.exists
                /\ \E n \in SemNames : ~sems[n].exists
                /\ lastCall'.fail = "none"
                /\ fds[procOf(c)] + 2 <= MaxFds )
                => /\ lastCall'.rc = 0
                   /\ \A n \in SemNames :
                        sems'[n].exists /\ (~sems[n].exists => sems'[n].value = 0)]_vars

====
